---- MODULE Spec2Model ----
(***************************************************************************)
(* Orchestrator of mnist_hogwild/main.py: argument handling, checkpoint    *)
(* loading, output directory preparation, the attack launcher              *)
(* (launch_atk_proc) and the worker launcher with its poll loop            *)
(* (launch_procs).                                                         *)
(*                                                                         *)
(* Three specifications are given.                                         *)
(*   SpecMain  the script from its first statement (line 289).  Control    *)
(*             never passes line 310: the parser defines no `baseline`     *)
(*             attribute, so `args.baseline` raises AttributeError.        *)
(*   SpecLoad  setup_and_load (and setup_outfiles, which it calls),        *)
(*             entered as on line 336 with the module globals bound.       *)
(*   Spec      the training block (lines 347-359) and the two launchers,   *)
(*             entered with the module globals bound; the recovery call    *)
(*             of line 352 is a second entry, because launch_atk_proc      *)
(*             never returns: its csv writer raises on the first record.   *)
(* Python exceptions are modelled as they are raised: an uncaught one      *)
(* ends the run in pc = "failed" with err naming it.                       *)
(***************************************************************************)
EXTENDS Integers, Sequences, FiniteSets, TLC

(* ------------------------------ bounds --------------------------------- *)
\* largest --num-processes explored
MaxProcs == 3
\* largest number of iterations explored for one poll loop
MaxEvals == 2
\* accuracies returned by an evaluation range over 0..MaxAcc
MaxAcc == 2
\* largest --attack-batches / --num-stages explored
MaxSteps == 2

VARIABLES
  pc,               \* position of the main process
  err,              \* the uncaught exception that ended the run, or "none"
  argv,             \* the command line
  args,             \* the argparse Namespace (global `args`)
  simulating,       \* global `simulating`
  fs,               \* directories and checkpoint files on disk
  ckpt,             \* the checkpoint file: [exists, acc]
  model,            \* "cold" or "loaded"
  bacc,             \* local `bacc` of setup_and_load: [bound, val]
  best_acc,         \* global `best_acc`: [bound, val]
  evalFile,         \* {outdir}/eval: [exists, rows]
  statusFile,       \* /scratch/{runname}.status
  started,          \* the handles of the current launcher, as ranks, in spawn order
  alive,            \* ranks of the worker processes that are alive
  reaped,           \* number of handles `kill -9` has been issued for
  log,              \* local `log` of the current launcher
  eval_counter,     \* local `eval_counter`
  s_rank,           \* parameter `s_rank` of launch_procs
  post_attack_step, \* local `post_attack_step` of launch_atk_proc
  snap,             \* per rank, the worker's view of the shared parameters
  stage,            \* number of attack stages the multi-stage attack has run
  admitted          \* ranks the multi-stage attack has admitted so far

cfgVars == <<argv, args, simulating>>
loadVars == <<fs, ckpt, model, bacc, best_acc>>
fileVars == <<evalFile, statusFile>>
procVars == <<started, alive, reaped>>
evalVars == <<log, eval_counter, s_rank, post_attack_step>>
hogVars == <<snap, stage, admitted>>
vars == <<pc, err, cfgVars, loadVars, fileVars, procVars, evalVars, hogVars>>

(* --------------------------- command line ------------------------------ *)
None == "None"
OutDir == "/scratch/runname.hogwild"
PrevDir == "/scratch/previous.hogwild"
LName == "/scratch/other.ckpt"

Modes == {None, "baseline", "simulate", "simulate-multi"}
ResumeValues == {-1, 1}

CommonOptions ==
  [resume : ResumeValues, checkpoint_lname : {None, LName},
   prepend_logs : {None, OutDir, PrevDir}, num_processes : 0..MaxProcs,
   soft_resume : BOOLEAN]

\* every command line explored: the sub-command decides which options exist
CommandLines ==
  {c @@ [mode |-> m] : c \in CommonOptions, m \in {None, "baseline"}}
  \cup {c @@ [mode |-> "simulate", attack_batches |-> k] :
          c \in CommonOptions, k \in 1..MaxSteps}
  \cup {c @@ [mode |-> "simulate-multi", num_stages |-> k, step_size |-> z] :
          c \in CommonOptions, k \in 1..MaxSteps, z \in 1..MaxSteps}

\* parser.parse_args(): one attribute per declared option of the parser and of
\* the chosen sub-parser; there is no --soft-resume option (lines 78-80)
Namespace(cl) == [k \in DOMAIN cl \ {"soft_resume"} |-> cl[k]]

NoArgs == [mode |-> None]

(* ----------------------------- evaluation ------------------------------ *)
Accs == 0..MaxAcc
Losses == {0}
\* test(): a read-only pass over the shared parameters giving (vloss, vacc)
TestResults == [vloss : Losses, vacc : Accs]

\* the dict appended to `log`
EvalRecord(res, t) == [vloss |-> res.vloss, vacc |-> res.vacc, time |-> t]

\* NextCounter with the increment doubled
NextCounterSkip(c) == c + 2
NextCounter(c) == c + 1

(* ------------------------------ eval log ------------------------------- *)
\* csv.DictWriter(eval_f, fieldnames=['time', 'vacc'])
FieldNames == {"time", "vacc"}
\* DictWriter._dict_to_list with the default extrasaction='raise'
WrongFields(dat) == DOMAIN dat \ FieldNames
Row(dat) == [time |-> dat.time, vacc |-> dat.vacc]
\* index of the first record writerow raises ValueError on, 0 when none
FirstBad(recs) ==
  IF \E i \in 1..Len(recs) : WrongFields(recs[i]) # {}
  THEN CHOOSE i \in 1..Len(recs) :
         /\ WrongFields(recs[i]) # {}
         /\ \A j \in 1..(i - 1) : WrongFields(recs[j]) = {}
  ELSE 0
\* the rows `for dat in log: writer.writerow(dat)` gets onto the file
Written(recs) ==
  LET b == FirstBad(recs)
      n == IF b = 0 THEN Len(recs) ELSE b - 1
  IN [i \in 1..n |-> Row(recs[i])]

\* open(f"{outdir}/eval", 'w'): create or truncate
OpenTruncate(f) == [exists |-> TRUE, rows |-> <<>>]
\* open(f"{outdir}/eval", 'a'): create, or keep what is there
OpenAppend(f) == [exists |-> TRUE, rows |-> IF f.exists THEN f.rows ELSE <<>>]

\* the eval file of an earlier run, as --prepend-logs copies it
History == <<[time |-> 0, vacc |-> 1]>>

(* ------------------------------ workers -------------------------------- *)
\* procs_alive answering for all handles instead of any
procs_alive_all(procs, live) == \A i \in 1..Len(procs) : procs[i] \in live
\* procs_alive(procs): true as long as any handle is alive
procs_alive(procs, live) == \E i \in 1..Len(procs) : procs[i] \in live

\* SpawnRanks with the upper end included
SpawnRanksInclusive(s, n) == s..n
\* range(s_rank, args.num_processes)
SpawnRanks(s, n) == s..(n - 1)

\* launch_atk_proc: post_attack_step by mode
PostAttackStep(a) ==
  IF a.mode = "simulate" THEN a.attack_batches ELSE a.num_stages

Fail(e) == pc' = "failed" /\ err' = e

\* rank of the attack worker (launch_atk_proc, `rank = 0`)
AtkRank == 0
\* the only text the script ever writes to the status file (line 358)
StartMarker == "Starting Training"
\* the exception Process.start() raises when the process cannot be created
SpawnError == "OSError"

IsSimulation(m) == m \in {"simulate", "simulate-multi"}

(* ------------------- the training block, lines 347-359 ----------------- *)
\* `if simulating:` on line 348
MainBranch ==
  /\ pc = "main_348"
  /\ pc' = IF simulating THEN "la_start" ELSE "main_357"
  /\ UNCHANGED <<err, cfgVars, loadVars, fileVars, procVars, evalVars>>
  /\ UNCHANGED hogVars

\* the status file is written, then launch_procs() is called with its defaults
MainStatus ==
  /\ pc = "main_357"
  /\ statusFile' = StartMarker
  /\ eval_counter' = 0
  /\ s_rank' = 0
  /\ pc' = "lp_entry"
  /\ UNCHANGED <<err, cfgVars, loadVars, evalFile, procVars, log, post_attack_step>>
  /\ UNCHANGED hogVars

\* launch_procs(step, s_rank=1) after launch_atk_proc has returned
MainRecovery ==
  /\ pc = "main_352"
  /\ eval_counter' = post_attack_step
  /\ s_rank' = 1
  /\ pc' = "lp_entry"
  /\ UNCHANGED <<err, cfgVars, loadVars, fileVars, procVars, log, post_attack_step>>
  /\ UNCHANGED hogVars

\* lines 361-370: the run time is logged and the logs are copied out
MainFinish ==
  /\ pc = "main_361"
  /\ pc' = "done"
  /\ UNCHANGED <<err, cfgVars, loadVars, fileVars, procVars, evalVars>>
  /\ UNCHANGED hogVars

(* --------------------------- launch_atk_proc --------------------------- *)
\* `atk_p.start()` either starts the attack worker or raises (the operating
\* system refuses the new process); nothing catches the exception
LaStart ==
  /\ pc = "la_start"
  /\ \/ /\ started' = <<AtkRank>>
        /\ alive' = alive \cup {AtkRank}
        /\ log' = <<>>
        /\ eval_counter' = 0
        /\ pc' = "la_check" /\ err' = err
     \/ /\ Fail(SpawnError)
        /\ UNCHANGED <<started, alive, log, eval_counter>>
  /\ UNCHANGED <<cfgVars, loadVars, fileVars, reaped, s_rank, post_attack_step>>
  /\ UNCHANGED hogVars

\* `while atk_p.is_alive():`
LaCheck ==
  /\ pc = "la_check"
  /\ IF started[1] \in alive
     THEN Len(log) < MaxEvals /\ pc' = "la_eval"
     ELSE pc' = "la_post"
  /\ UNCHANGED <<err, cfgVars, loadVars, fileVars, procVars, evalVars>>
  /\ UNCHANGED hogVars

LaEval ==
  /\ pc = "la_eval"
  /\ \E res \in TestResults :
       log' = Append(log, EvalRecord(res, eval_counter))
  /\ eval_counter' = NextCounter(eval_counter)
  /\ pc' = "la_check"
  /\ UNCHANGED <<err, cfgVars, loadVars, fileVars, procVars, s_rank, post_attack_step>>
  /\ UNCHANGED hogVars

\* the record of the evaluation after the attack
PostAttackRecord(res, counter, step) == EvalRecord(res, counter)

LaPost ==
  /\ pc = "la_post"
  /\ post_attack_step' = PostAttackStep(args)
  /\ \E res \in TestResults :
       log' = Append(log, PostAttackRecord(res, eval_counter, PostAttackStep(args)))
  /\ pc' = "la_write"
  /\ UNCHANGED <<err, cfgVars, loadVars, fileVars, procVars, eval_counter, s_rank>>
  /\ UNCHANGED hogVars

\* `with open(f"{outdir}/eval", 'w')`: rows are written until writerow raises
LaWrite ==
  /\ pc = "la_write"
  /\ evalFile' = [OpenTruncate(evalFile) EXCEPT !.rows = @ \o Written(log)]
  /\ IF FirstBad(log) # 0
     THEN Fail("ValueError")
     ELSE pc' = "main_352" /\ err' = err
  /\ UNCHANGED <<cfgVars, loadVars, statusFile, procVars, evalVars>>
  /\ UNCHANGED hogVars

(* ----------------------------- launch_procs ---------------------------- *)
\* `if s_rank == args.num_processes: return`, else `processes = []`
LpEntry ==
  /\ pc = "lp_entry"
  /\ IF s_rank = args.num_processes
     THEN pc' = "main_361" /\ started' = started
     ELSE pc' = "lp_spawn" /\ started' = <<>>
  /\ UNCHANGED <<err, cfgVars, loadVars, fileVars, alive, reaped, evalVars>>
  /\ UNCHANGED hogVars

\* one iteration of the spawn loop, or its exit to `log = []`; `p.start()`
\* either starts the worker or raises, and the loop has no exception handler,
\* so the workers started by earlier iterations are left as they are
LpSpawn ==
  /\ pc = "lp_spawn"
  /\ LET rank == s_rank + Len(started)
     IN IF rank \in SpawnRanks(s_rank, args.num_processes)
        THEN \/ /\ started' = Append(started, rank)
                /\ alive' = alive \cup {rank}
                /\ UNCHANGED <<pc, err, log>>
             \/ /\ Fail(SpawnError)
                /\ UNCHANGED <<started, alive, log>>
        ELSE /\ log' = <<>>
             /\ pc' = "lp_check"
             /\ UNCHANGED <<err, started, alive>>
  /\ UNCHANGED <<cfgVars, loadVars, fileVars, reaped, eval_counter, s_rank,
                 post_attack_step>>
  /\ UNCHANGED hogVars

\* `while procs_alive(processes):`
LpCheck ==
  /\ pc = "lp_check"
  /\ IF procs_alive(started, alive)
     THEN Len(log) < MaxEvals /\ pc' = "lp_eval"
     ELSE pc' = "lp_write"
  /\ UNCHANGED <<err, cfgVars, loadVars, fileVars, procVars, evalVars>>
  /\ UNCHANGED hogVars

LpEval ==
  /\ pc = "lp_eval"
  /\ \E res \in TestResults :
       log' = Append(log, EvalRecord(res, eval_counter))
  /\ eval_counter' = NextCounter(eval_counter)
  /\ pc' = "lp_check"
  /\ UNCHANGED <<err, cfgVars, loadVars, fileVars, procVars, s_rank, post_attack_step>>
  /\ UNCHANGED hogVars

\* `with open(f"{outdir}/eval", 'a')`: rows are written until writerow raises
LpWriteInLoop ==
  /\ pc = "lp_write"
  /\ evalFile' = [OpenAppend(evalFile) EXCEPT !.rows = @ \o Written(log)]
  /\ IF FirstBad(log) # 0
     THEN Fail("ValueError") /\ reaped' = reaped
     ELSE pc' = "lp_check" /\ err' = err /\ reaped' = 0
  /\ UNCHANGED <<cfgVars, loadVars, statusFile, started, alive, evalVars>>
  /\ UNCHANGED hogVars

LpWrite ==
  /\ pc = "lp_write"
  /\ evalFile' = [OpenAppend(evalFile) EXCEPT !.rows = @ \o Written(log)]
  /\ IF FirstBad(log) # 0
     THEN Fail("ValueError") /\ reaped' = reaped
     ELSE pc' = "lp_reap" /\ err' = err /\ reaped' = 0
  /\ UNCHANGED <<cfgVars, loadVars, statusFile, started, alive, evalVars>>
  /\ UNCHANGED hogVars

\* `for proc in processes: os.system("kill -9 ...")`
LpReap ==
  /\ pc = "lp_reap"
  /\ IF reaped < Len(started)
     THEN /\ alive' = alive \ {started[reaped + 1]}
          /\ snap' = [snap EXCEPT ![started[reaped + 1]] = "none"]
          /\ reaped' = reaped + 1
          /\ pc' = pc
     ELSE /\ pc' = "main_361"
          /\ UNCHANGED <<alive, reaped, snap>>
  /\ UNCHANGED <<err, cfgVars, loadVars, fileVars, started, evalVars, stage, admitted>>

(* -------------------------------- workers ------------------------------ *)
\* a worker process ends (train() returns, or the process dies)
WorkerExit ==
  /\ \E r \in alive :
       /\ alive' = alive \ {r}
       /\ snap' = [snap EXCEPT ![r] = "none"]
  /\ UNCHANGED <<pc, err, cfgVars, loadVars, fileVars, started, reaped, evalVars,
                 stage, admitted>>

\* what a worker process is handed: `args=(rank, args, model, device,
\* dataloader_kwargs)`; under the 'spawn' start method a worker shares nothing
\* else with the orchestrator or with the other workers
ProcessArgsWithLock ==
  {"rank", "args", "model", "device", "dataloader_kwargs", "lock"}
ProcessArgs == {"rank", "args", "model", "device", "dataloader_kwargs"}

\* a worker's view of the shared parameters: "none" before its first read,
\* "fresh" once read, "stale" once another worker has stepped since the read,
\* "stepped" / "stepped_stale" after its own step on a fresh / stale view
Views == {"none", "fresh", "stale", "stepped", "stepped_stale"}
Holding == {"fresh", "stale"}

\* worker r reads the shared parameters to compute its gradient; it would wait
\* for a lock only if it had been handed one
WorkerRead(r) ==
  /\ r \in alive
  /\ snap[r] \notin Holding
  /\ "lock" \in ProcessArgs => \A q \in alive \ {r} : snap[q] \notin Holding
  /\ snap' = [snap EXCEPT ![r] = "fresh"]
  /\ UNCHANGED <<pc, err, cfgVars, loadVars, fileVars, procVars, evalVars,
                 stage, admitted>>

\* worker r applies its step to the shared parameters; every view another
\* worker read before this step is now out of date
WorkerStep(r) ==
  /\ r \in alive
  /\ snap[r] \in Holding
  /\ snap' = [q \in DOMAIN snap |->
               IF q = r THEN (IF snap[r] = "fresh" THEN "stepped" ELSE "stepped_stale")
               ELSE IF snap[q] = "fresh" THEN "stale" ELSE snap[q]]
  /\ UNCHANGED <<pc, err, cfgVars, loadVars, fileVars, procVars, evalVars,
                 stage, admitted>>

(* ------------------------- Spec: the training block -------------------- *)
\* no worker holds a view of the parameters, no attack stage has run
InitWorkers ==
  /\ snap = [r \in 0..MaxProcs |-> "none"]
  /\ stage = 0
  /\ admitted = {}

Unbound == [bound |-> FALSE, val |-> 0]
NoFile == [exists |-> FALSE, rows |-> <<>>]
PriorRows == {<<>>, <<[time |-> 0, vacc |-> 0]>>}

\* the command lines under which the training block is entered; the block
\* never reads --step-size
RunCommandLines ==
  {c \in CommandLines :
     /\ ~c.soft_resume
     /\ c.checkpoint_lname = None
     /\ "step_size" \in DOMAIN c => c.step_size = 1
     /\ c.mode = "baseline" => c.num_processes <= 1
     /\ IF IsSimulation(c.mode)
        THEN c.resume # -1 /\ c.prepend_logs # OutDir
        ELSE c.resume = -1 /\ c.prepend_logs = None}

FilesReady == [ckpt_dir |-> TRUE, ckpt_out |-> TRUE, ckpt_lname |-> FALSE,
               outdir |-> TRUE, prepend |-> "complete"]

InitGlobals(cl, a0) ==
  /\ InitWorkers
  /\ argv = cl
  /\ args = Namespace(cl)
  /\ simulating = IsSimulation(cl.mode)
  /\ err = "none"
  /\ fs = FilesReady
  /\ ckpt = [exists |-> TRUE, acc |-> a0]
  /\ model = IF IsSimulation(cl.mode) THEN "loaded" ELSE "cold"
  /\ bacc = Unbound
  /\ best_acc = IF IsSimulation(cl.mode) THEN [bound |-> TRUE, val |-> a0] ELSE Unbound
  /\ statusFile = "absent"
  /\ reaped = 0
  /\ log = <<>>
  /\ eval_counter = 0
  /\ s_rank = 0

\* line 347, after setup_outfiles has prepared the output directory
InitBlock ==
  \E cl \in RunCommandLines, a0 \in Accs :
    /\ InitGlobals(cl, a0)
    /\ IsSimulation(cl.mode) \/ a0 = 0
    /\ pc = "main_348"
    /\ evalFile = IF cl.prepend_logs # None
                  THEN [exists |-> TRUE, rows |-> History]
                  ELSE NoFile
    /\ started = <<>>
    /\ alive = {}
    /\ post_attack_step = 0

\* line 352, the attack worker dead and its eval file written
InitRecovery ==
  \E cl \in RunCommandLines, a0 \in Accs, rows \in PriorRows :
    /\ InitGlobals(cl, a0)
    /\ IsSimulation(cl.mode)
    /\ pc = "main_352"
    /\ evalFile = [exists |-> TRUE, rows |-> rows]
    /\ started = <<AtkRank>>
    /\ alive = {}
    /\ post_attack_step = PostAttackStep(Namespace(cl))

Init == InitBlock \/ InitRecovery

Next ==
  \/ MainBranch \/ MainStatus \/ MainRecovery \/ MainFinish
  \/ LaStart \/ LaCheck \/ LaEval \/ LaPost \/ LaWrite
  \/ LpEntry \/ LpSpawn \/ LpCheck \/ LpEval \/ LpWrite \/ LpReap
  \/ WorkerExit

Spec == Init /\ [][Next]_vars

(* ------------------ SpecLoad: setup_and_load, line 336 ----------------- *)
CheckpointMissing == "AssertionError: checkpoint not found"
ResumeMissing == "AssertionError: Simulate should be used with a checkpoint"
PrependConflict == "AssertionError: Prepend and output cannot be the same!"
PrependMissing == "AssertionError: Prepend directory not found"
PrependFileMissing == "AssertionError: Missing prepend file"

\* the eval file a previous run left in the output directory
OldRows == <<[time |-> 0, vacc |-> 0]>>

\* ckpt_load_fname: --checkpoint-lname when given, else the output name
LoadFileExists(a, f) ==
  IF a.checkpoint_lname = None THEN f.ckpt_out ELSE f.ckpt_lname

\* the `prepend` argument setup_and_load passes to setup_outfiles
PrependArgDropped(a) == None
PrependArg(a) == IF IsSimulation(a.mode) THEN a.prepend_logs ELSE None

\* os.mkdir(ckpt_dir), an existing directory being accepted
SalMkdir ==
  /\ pc = "sal_171"
  /\ fs' = [fs EXCEPT !.ckpt_dir = TRUE]
  /\ pc' = "sal_185"
  /\ UNCHANGED <<err, cfgVars, ckpt, model, bacc, best_acc, fileVars, procVars, evalVars>>
  /\ UNCHANGED hogVars

\* `if args.mode == 'simulate' or args.mode == 'simulate-multi':`
SalBranch ==
  /\ pc = "sal_185"
  /\ pc' = IF IsSimulation(args.mode) THEN "sal_186" ELSE "so_141"
  /\ UNCHANGED <<err, cfgVars, loadVars, fileVars, procVars, evalVars>>
  /\ UNCHANGED hogVars

\* `assert(args.resume != -1)`
SalAssertResume ==
  /\ pc = "sal_186"
  /\ IF args.resume # -1
     THEN pc' = "sal_190" /\ err' = err
     ELSE Fail(ResumeMissing)
  /\ UNCHANGED <<cfgVars, loadVars, fileVars, procVars, evalVars>>
  /\ UNCHANGED hogVars

\* `assert(os.path.isfile(ckpt_load_fname))`
SalAssertFile ==
  /\ pc = "sal_190"
  /\ IF LoadFileExists(args, fs)
     THEN pc' = "sal_192" /\ err' = err
     ELSE Fail(CheckpointMissing)
  /\ UNCHANGED <<cfgVars, loadVars, fileVars, procVars, evalVars>>
  /\ UNCHANGED hogVars

\* torch.load, load_state_dict, `bacc = checkpoint['acc']`
SalLoad ==
  /\ pc = "sal_192"
  /\ model' = "loaded"
  /\ bacc' = [bound |-> TRUE, val |-> ckpt.acc]
  /\ pc' = "so_141"
  /\ UNCHANGED <<err, cfgVars, fs, ckpt, best_acc, fileVars, procVars, evalVars>>
  /\ UNCHANGED hogVars

\* setup_outfiles: `assert(prepend != dirname)`
SoAssertConflict ==
  /\ pc = "so_141"
  /\ IF PrependArg(args) # None /\ PrependArg(args) = OutDir
     THEN Fail(PrependConflict)
     ELSE pc' = "so_145" /\ err' = err
  /\ UNCHANGED <<cfgVars, loadVars, fileVars, procVars, evalVars>>
  /\ UNCHANGED hogVars

\* setup_outfiles: an existing directory is removed, or sys.exit(1) on OSError
SoRemove ==
  /\ pc = "so_145"
  /\ IF fs.outdir
     THEN \/ /\ fs' = [fs EXCEPT !.outdir = FALSE]
             /\ evalFile' = NoFile
             /\ pc' = "so_152" /\ err' = err
          \/ /\ Fail("SystemExit(1)")
             /\ UNCHANGED <<fs, evalFile>>
     ELSE pc' = "so_152" /\ UNCHANGED <<err, fs, evalFile>>
  /\ UNCHANGED <<cfgVars, ckpt, model, bacc, best_acc, statusFile, procVars, evalVars>>
  /\ UNCHANGED hogVars

\* setup_outfiles: os.mkdir(dirname)
SoMkdir ==
  /\ pc = "so_152"
  /\ fs' = [fs EXCEPT !.outdir = TRUE]
  /\ pc' = "so_154"
  /\ UNCHANGED <<err, cfgVars, ckpt, model, bacc, best_acc, fileVars, procVars, evalVars>>
  /\ UNCHANGED hogVars

\* setup_outfiles: the prepend source is checked and its files copied, 'eval'
\* first; control then returns into setup_and_load
SoPrepend ==
  /\ pc = "so_154"
  /\ IF PrependArg(args) = None
     THEN /\ pc' = IF IsSimulation(args.mode) THEN "sal_197" ELSE "sal_202"
          /\ UNCHANGED <<err, evalFile>>
     ELSE IF fs.prepend = "absent"
     THEN Fail(PrependMissing) /\ evalFile' = evalFile
     ELSE IF fs.prepend = "no_eval"
     THEN Fail(PrependFileMissing) /\ evalFile' = evalFile
     ELSE /\ evalFile' = [exists |-> TRUE, rows |-> History]
          /\ IF fs.prepend = "no_conf"
             THEN Fail(PrependFileMissing)
             ELSE pc' = "sal_197" /\ err' = err
  /\ UNCHANGED <<cfgVars, loadVars, statusFile, procVars, evalVars>>
  /\ UNCHANGED hogVars

\* `logging.info('Resumed from %s at %.3f', ckpt_load_fname, best_acc)`: the
\* global best_acc is read before line 336 has bound it
SalLog ==
  /\ pc = "sal_197"
  /\ IF best_acc.bound
     THEN pc' = "sal_202" /\ err' = err
     ELSE Fail("NameError")
  /\ UNCHANGED <<cfgVars, loadVars, fileVars, procVars, evalVars>>
  /\ UNCHANGED hogVars

\* `return mdl, bacc`: bacc is bound on the simulation branch only
SalReturn ==
  /\ pc = "sal_202"
  /\ IF bacc.bound
     THEN pc' = "main_338" /\ err' = err /\ best_acc' = bacc
     ELSE Fail("UnboundLocalError") /\ best_acc' = best_acc
  /\ UNCHANGED <<cfgVars, fs, ckpt, model, bacc, fileVars, procVars, evalVars>>
  /\ UNCHANGED hogVars

Files ==
  {f \in [ckpt_dir : BOOLEAN, ckpt_out : BOOLEAN, ckpt_lname : BOOLEAN,
          outdir : BOOLEAN,
          prepend : {"absent", "no_eval", "no_conf", "complete"}] :
     f.ckpt_out => f.ckpt_dir}

\* the command lines explored for setup_and_load, which reads the mode and
\* the checkpoint options only
LoadCommandLines ==
  {c \in CommandLines :
     /\ ~c.soft_resume
     /\ c.num_processes = 1
     /\ \A k \in {"attack_batches", "num_stages", "step_size"} :
          k \in DOMAIN c => c[k] = 1}

InitIdle ==
  /\ InitWorkers
  /\ err = "none"
  /\ model = "cold"
  /\ bacc = Unbound
  /\ best_acc = Unbound
  /\ statusFile = "absent"
  /\ started = <<>>
  /\ alive = {}
  /\ reaped = 0
  /\ log = <<>>
  /\ eval_counter = 0
  /\ s_rank = 0
  /\ post_attack_step = 0

InitLoad ==
  \E cl \in LoadCommandLines, f \in Files :
    /\ InitIdle
    /\ argv = cl
    /\ args = Namespace(cl)
    /\ simulating = IsSimulation(cl.mode)
    /\ fs = f
    /\ ckpt = [exists |-> LoadFileExists(cl, f), acc |-> 1]
    /\ evalFile = IF f.outdir THEN [exists |-> TRUE, rows |-> OldRows] ELSE NoFile
    /\ pc = "sal_171"

NextLoad ==
  \/ SalMkdir \/ SalBranch \/ SalAssertResume \/ SalAssertFile \/ SalLoad
  \/ SoAssertConflict \/ SoRemove \/ SoMkdir \/ SoPrepend
  \/ SalLog \/ SalReturn

SpecLoad == InitLoad /\ [][NextLoad]_vars

(* -------------------- SpecMain: the script, line 289 ------------------- *)
\* parser.parse_args(): an option the parser does not declare ends the run
\* with status 2
MainParse ==
  /\ pc = "main_289"
  /\ IF argv.soft_resume
     THEN Fail("SystemExit(2)") /\ args' = args
     ELSE args' = Namespace(argv) /\ pc' = "main_297" /\ err' = err
  /\ UNCHANGED <<argv, simulating, loadVars, fileVars, procVars, evalVars>>
  /\ UNCHANGED hogVars

\* lines 297-307
MainMode ==
  /\ pc = "main_297"
  /\ simulating' = IsSimulation(args.mode)
  /\ pc' = "main_310"
  /\ UNCHANGED <<err, argv, args, loadVars, fileVars, procVars, evalVars>>
  /\ UNCHANGED hogVars

\* `use_cuda = args.baseline and torch.cuda.is_available()`
MainUseCuda ==
  /\ pc = "main_310"
  /\ IF "baseline" \in DOMAIN args
     THEN pc' = "main_313" /\ err' = err
     ELSE Fail("AttributeError")
  /\ UNCHANGED <<cfgVars, loadVars, fileVars, procVars, evalVars>>
  /\ UNCHANGED hogVars

InitMain ==
  \E cl \in CommandLines, f \in Files :
    /\ InitIdle
    /\ argv = cl
    /\ args = NoArgs
    /\ simulating = FALSE
    /\ f.ckpt_dir /\ f.outdir /\ f.prepend = "complete"
    /\ fs = f
    /\ ckpt = [exists |-> LoadFileExists(cl, f), acc |-> 1]
    /\ evalFile = [exists |-> TRUE, rows |-> OldRows]
    /\ pc = "main_289"

NextMain == MainParse \/ MainMode \/ MainUseCuda

SpecMain == InitMain /\ [][NextMain]_vars

(* ------- SpecHogwild: normal training with the workers' updates -------- *)
\* line 347 of a normal training run
InitHogwild ==
  \E cl \in RunCommandLines :
    /\ cl.mode = None
    /\ InitGlobals(cl, 0)
    /\ pc = "main_348"
    /\ evalFile = NoFile
    /\ started = <<>>
    /\ alive = {}
    /\ post_attack_step = 0

NextHogwild ==
  \/ MainBranch \/ MainStatus \/ MainFinish
  \/ LpEntry \/ LpSpawn \/ LpCheck \/ LpEval \/ LpWrite \/ LpReap
  \/ WorkerExit
  \/ \E r \in 0..MaxProcs : WorkerRead(r) \/ WorkerStep(r)

SpecHogwild == InitHogwild /\ [][NextHogwild]_vars

(* ------------- SpecStages: the attack worker of simulate-multi ---------- *)
\* the ranks stage k admits: the next block of step-size ranks after the attack
\* rank, cut off at the last rank num_processes - 1
StageBlockUnclamped(k, S, N) == ((k - 1) * S + 1)..(k * S)
StageBlock(k, S, N) == {r \in ((k - 1) * S + 1)..(k * S) : r <= N - 1}

\* the attack worker runs its next stage
StageAdmit ==
  /\ AtkRank \in alive
  /\ stage < args.num_stages
  /\ stage' = stage + 1
  /\ admitted' = admitted \cup StageBlock(stage + 1, args.step_size, args.num_processes)
  /\ UNCHANGED <<pc, err, cfgVars, loadVars, fileVars, procVars, evalVars, snap>>

\* the attack worker ends after its last stage
StageEnd ==
  /\ AtkRank \in alive
  /\ stage = args.num_stages
  /\ alive' = alive \ {AtkRank}
  /\ UNCHANGED <<pc, err, cfgVars, loadVars, fileVars, started, reaped, evalVars, hogVars>>

\* launch_atk_proc after `atk_p.start()` in a multi-stage simulation
InitStages ==
  \E cl \in CommandLines :
    /\ cl.mode = "simulate-multi" /\ ~cl.soft_resume /\ cl.resume # -1
    /\ InitGlobals(cl, 0)
    /\ pc = "la_check"
    /\ evalFile = NoFile
    /\ started = <<AtkRank>>
    /\ alive = {AtkRank}
    /\ post_attack_step = 0

NextStages == StageAdmit \/ StageEnd

SpecStages == InitStages /\ [][NextStages]_vars

(* ------------------------------- claims -------------------------------- *)
LaPcs == {"la_check", "la_eval", "la_post", "la_write"}
LpPollPcs == {"lp_check", "lp_eval"}
LpAfterSpawn == {"lp_check", "lp_eval", "lp_write", "lp_reap"}
AfterPoll == {"lp_write", "lp_reap", "main_361", "done", "failed"}
Terminal == {"done", "failed"}
AnyHandleAlive == \E i \in 1..Len(started) : started[i] \in alive
IsPrefix(p, q) == Len(p) <= Len(q) /\ \A i \in 1..Len(p) : q[i] = p[i]
MaxOf(S) == CHOOSE x \in S : \A y \in S : y <= x

\* C1: in launch_procs, a liveness check that finds every handle dead leaves
\* the poll loop at once, without evaluating or appending; the loop is left
\* only by a check that finds every handle dead; and once the loop is left
\* neither the log nor the counter changes again.
C1_PollLoopExit ==
  [][ /\ (pc = "lp_check" /\ ~AnyHandleAlive)
           => (pc' = "lp_write" /\ log' = log /\ eval_counter' = eval_counter)
      /\ (pc = "lp_check" /\ pc' # pc) => (pc' = "lp_write" <=> ~AnyHandleAlive)
      /\ (pc \in LpPollPcs /\ pc' \notin LpPollPcs) => (pc = "lp_check" /\ ~AnyHandleAlive)
      /\ (pc \in AfterPoll) => (log' = log /\ eval_counter' = eval_counter)
    ]_vars
\* the loop has just been left after at least one evaluation of several workers
C1_Witness == pc = "lp_write" /\ Len(log) > 0 /\ Len(started) > 1

\* the counter a phase starts from: 0 in launch_atk_proc and in launch_procs(),
\* the attack phase's return value in launch_procs(step, s_rank=1)
PhaseStart ==
  IF pc \in LaPcs THEN 0 ELSE IF simulating THEN post_attack_step ELSE 0

\* C2: within one phase the records of `log` carry the counters start,
\* start+1, ... without gap or duplicate, the counter stands one past the
\* last poll record, and every poll iteration appends exactly one record
\* tagged with the current counter and then adds one to the counter.
C2_CountersContiguous ==
  /\ [](pc \in LaPcs \cup LpAfterSpawn =>
         /\ \A i \in 1..Len(log) : log[i].time = PhaseStart + i - 1
         /\ pc \in LpPollPcs \cup {"la_check", "la_eval"}
              => eval_counter = PhaseStart + Len(log))
  /\ [][(pc \in {"la_eval", "lp_eval"} /\ pc' # pc) =>
          /\ Len(log') = Len(log) + 1
          /\ SubSeq(log', 1, Len(log)) = log
          /\ log'[Len(log')].time = eval_counter
          /\ eval_counter' = eval_counter + 1]_vars
\* a recovery phase that starts above 0 has polled twice
C2_Witness == pc = "lp_check" /\ simulating /\ Len(log) >= 2

\* C3: the record appended after the attack carries the configured
\* attack-batch count (simulate) or stage count (simulate-multi) as its time.
C3_PostAttackTag ==
  pc = "la_write" =>
    log[Len(log)].time =
      (IF args.mode = "simulate" THEN args.attack_batches ELSE args.num_stages)

\* C5: when the run has ended the eval file ends with the records of `log`,
\* each once and in order.
C5_LogFileHoldsEveryRecord ==
  pc \in Terminal =>
    LET n == Len(log)
        m == Len(evalFile.rows)
    IN /\ m >= n
       /\ \A i \in 1..n : evalFile.rows[m - n + i] = [time |-> log[i].time, vacc |-> log[i].vacc]

\* C6: with a prepend source, no step of the run removes the prepended
\* history from the head of the eval file.
C6_PrependKept ==
  [][(args.prepend_logs # None /\ IsPrefix(History, evalFile.rows))
       => IsPrefix(History, evalFile'.rows)]_vars

\* C7: the handles of launch_procs are the ranks s_rank, s_rank+1, ... below
\* num_processes, each once; after the spawn loop they are all of
\* [s_rank, num_processes); and a call with s_rank = num_processes returns
\* at once, changing no handle, process, log, counter or file.
C7_SpawnRange ==
  /\ [](pc \in LpAfterSpawn \cup {"lp_spawn"} =>
         /\ \A i \in 1..Len(started) :
              started[i] = s_rank + i - 1 /\ started[i] < args.num_processes
         /\ pc \in LpAfterSpawn =>
              {started[i] : i \in 1..Len(started)}
                = {r \in 0..args.num_processes : s_rank <= r /\ r < args.num_processes})
  /\ [][(pc = "lp_entry" /\ s_rank = args.num_processes) =>
          /\ pc' = "main_361"
          /\ UNCHANGED <<started, alive, reaped, log, eval_counter, evalFile>>]_vars
\* a recovery launch has spawned ranks 1 and 2
C7_Witness == pc = "lp_check" /\ s_rank = 1 /\ started = <<1, 2>>

\* C8: the persisted checkpoint's accuracy is the maximum of the loaded
\* accuracy and the accuracies evaluated so far.
C8_CheckpointIsRunningMax ==
  best_acc.bound =>
    /\ ckpt.exists
    /\ ckpt.acc = MaxOf({best_acc.val} \cup {log[i].vacc : i \in 1..Len(log)})

\* C9: when --resume is given and the checkpoint file to load is absent,
\* setup_and_load gets no further than the load and ends, if it ends, with
\* the missing-checkpoint failure.
C9_HardResumeFails ==
  (args.resume # -1 /\ ~LoadFileExists(args, fs)) =>
    \/ pc \in {"sal_171", "sal_185", "sal_186", "sal_190"}
    \/ pc = "failed" /\ err = CheckpointMissing

\* C10: with soft resume asked for and the checkpoint file absent, the run
\* does not fail.
C10_SoftResumeProceeds ==
  (argv.soft_resume /\ argv.resume # -1 /\ ~LoadFileExists(argv, fs))
    => pc # "failed"

\* message of the assertion on lines 321-322
BaselineTooManyProcesses == "AssertionError: Baseline supports only one process"

\* C11: a baseline run asked to use more than one process is rejected by the
\* process-count assertion: when such a run has failed, the failure is the
\* "Baseline supports only one process" assertion, and no worker was started
\* and the output directory was not touched.
C11_BaselineRejected ==
  (argv.mode = "baseline" /\ argv.num_processes > 1 /\ ~argv.soft_resume
     /\ pc = "failed")
    => /\ err = BaselineTooManyProcesses
       /\ started = <<>> /\ alive = {}
       /\ fs.outdir /\ evalFile.rows = OldRows

\* a step of output-directory preparation that rejects the prepend source and
\* leaves the directory and its eval file as they were
RejectsPrepend ==
  /\ fs'.outdir = fs.outdir
  /\ evalFile' = evalFile
  /\ pc = "so_141" => (pc' = "failed" /\ err' = PrependConflict)

\* C12 as stated: in every mode, a prepend source equal to the output
\* directory makes output-directory preparation fail with PrependConflict,
\* the directory being neither removed nor recreated and nothing copied.
C12_PrependConflictEveryMode ==
  [][args.prepend_logs = OutDir => RejectsPrepend]_vars

\* C12 amended: the same holds in the two simulation modes, the only modes in
\* which setup_and_load hands the prepend source to setup_outfiles.
C12_PrependConflictInSimulation ==
  [][(IsSimulation(args.mode) /\ args.prepend_logs = OutDir)
       => RejectsPrepend]_vars

C12_Witness ==
  /\ pc = "failed" /\ err = PrependConflict
  /\ args.prepend_logs = OutDir
  /\ fs.outdir /\ evalFile.rows = OldRows

\* C13: when starting a worker fails in the spawn loop of launch_procs, no
\* worker started by an earlier iteration of that loop is left running.
C13_NoPartialWorkerSet ==
  (pc = "failed" /\ err = SpawnError) => ~AnyHandleAlive

\* C14: once a run of launch_procs has left its poll loop and ended, the kill
\* of lines 284-285 has been issued for every handle the launch started and no
\* started worker is alive.
C14_StragglersReaped ==
  (~simulating /\ pc \in Terminal /\ err # SpawnError /\ Len(started) > 0)
    => (reaped = Len(started) /\ ~AnyHandleAlive)

\* C15: in the non-simulated mode, once the orchestrator has detected that
\* training is complete and has finished, the status file holds a release
\* marker, that is, something other than the start marker written before the
\* workers were spawned.
C15_ReleaseMarkerWritten ==
  (~simulating /\ pc = "done" /\ Len(started) > 0)
    => statusFile \notin {"absent", StartMarker}

\* the smaller of two numbers
Min(a, b) == IF a <= b THEN a ELSE b

\* C16: in a multi-stage simulation with step size S and N processes, the
\* ranks admitted after k stages are exactly 1..k*S, stage k adding the block
\* (k-1)*S+1..k*S, except that no rank beyond N - 1 is ever admitted: when
\* fewer than S ranks remain only those are admitted, and the attack does not
\* fail.
C16_StageAdmission ==
  /\ admitted = 1..Min(stage * args.step_size, args.num_processes - 1)
  /\ Cardinality(admitted) <= Cardinality(1..(args.num_processes - 1))
  /\ pc # "failed"

\* a stage in which fewer than S ranks remained has run
C16_Witness ==
  /\ stage = 1 /\ args.step_size = 2 /\ args.num_processes = 2
  /\ admitted = {1}

\* the orchestrator state a control position belongs to, as its place in the
\* order INIT, LOADING_CHECKPOINT, PREPARING_OUTPUT, SPAWNING, POLLING,
\* DRAINING, FINALIZING, DONE; a failed run has left the order for good
PhaseRank(p) ==
  CASE p \in {"main_289", "main_297", "main_310", "main_313"} -> 0
    [] p \in {"sal_171", "sal_185", "sal_186", "sal_190", "sal_192"} -> 1
    [] p \in {"so_141", "so_145", "so_152", "so_154", "sal_197", "sal_202",
              "main_338", "main_348", "main_357"} -> 2
    [] p \in {"la_start", "lp_entry", "lp_spawn"} -> 3
    [] p \in {"la_check", "la_eval", "lp_check", "lp_eval"} -> 4
    [] p \in {"la_post", "la_write", "main_352", "lp_write", "lp_reap"} -> 5
    [] p = "main_361" -> 6
    [] p = "done" -> 7
    [] p = "failed" -> 8

C18_RunReachesDone ==
  (alive = {} /\ err # SpawnError /\ ~ENABLED Next) => pc = "done"

C20_WholeRunCountersUnique ==
  (simulating /\ pc = "la_write" /\ args.num_processes > 1)
    => \A i \in 1..Len(log) : log[i].time < post_attack_step

====
